---- MODULE Spec2Model ----
(***************************************************************************)
(* Model of the two icon scripts of the repository:                        *)
(*   scripts/create-icons-simple.py       (script = "simple")              *)
(*   scripts/create-placeholder-icons.py  (script = "placeholder")         *)
(* A run of a script is a sequence of steps (pc) over the process state    *)
(* and its environment: the installed drawing library, the output          *)
(* directory, the files in it and the console.                             *)
(***************************************************************************)
EXTENDS Integers, Sequences, FiniteSets, TLC

\* ---- bounds of the model ------------------------------------------------
MaxRuns == 2      \* consecutive runs of a script
NegSizes == 2     \* the render harness tries sizes from -NegSizes ...
MaxSize == 130    \* ... up to MaxSize

VARIABLES
  script,      \* which of the two scripts is run
  sizes,       \* the size list the loop iterates over
  pc,          \* position of the process in the script
  idx,         \* 1-based position of the loop in sizes
  img,         \* the canvas being drawn (NoImage when there is none)
  pil,         \* environment: the PIL package can be imported
  dirExists,   \* environment: the directory public/icons exists
  fs,          \* environment: files of public/icons, path -> image
  stdout,      \* console lines printed by the current run
  writes,      \* paths written by the successful saves of the current run
  error,       \* uncaught exception that ended the run ("None" when none)
  exitStatus,  \* exit status of the process, -1 while it is running
  run,         \* number of the current run
  prev         \* file system and exit status at the end of the previous run

vars == <<script, sizes, pc, idx, img, pil, dirExists, fs, stdout, writes,
          error, exitStatus, run, prev>>

Scripts == {"simple", "placeholder"}

\* ---- constants of the scripts -------------------------------------------
PURPLE == <<145, 70, 255>>
WHITE == <<255, 255, 255>>
DARK == <<24, 24, 27>>
\* PIL resolves the colour name 'white' to this RGB triple
NamedWhite == <<255, 255, 255>>
NoColor == <<>>
SIZES == <<16, 32, 48, 128>>

Max(a, b) == IF a >= b THEN a ELSE b

\* ---- path of an icon: os.path.join(..., 'public', 'icons', f'icon{size}.png')
DigitChar == <<"0", "1", "2", "3", "4", "5", "6", "7", "8", "9">>

RECURSIVE Dec(_)
Dec(n) == IF n < 10 THEN <<DigitChar[n + 1]>>
          ELSE Dec(n \div 10) \o <<DigitChar[(n % 10) + 1]>>

\* str(size) as used by the f-string
Str(n) == IF n < 0 THEN <<"-">> \o Dec(0 - n) ELSE Dec(n)

IconsDir == <<"scripts", "..", "public", "icons">>

\* the file name without the size in it
FileNameNoSize(size) == <<"icon", ".png">>

FileName(size) == <<"icon">> \o Str(size) \o <<".png">>

OutputPath(size) == IconsDir \o FileName(size)

\* ---- the draw calls of the two render functions -------------------------
Ellipse(box, fill, outline, width) ==
  [kind |-> "ellipse", box |-> box, fill |-> fill, outline |-> outline, width |-> width]

Rectangle(box, fill, outline) ==
  [kind |-> "rectangle", box |-> box, fill |-> fill, outline |-> outline, width |-> 1]

\* create_simple_icon: white circle, then the two bars of the "T"
SimpleShapes(size) ==
  LET center == size \div 2
      radius == size \div 3
      letter_size == size \div 2
      letter_x == center - letter_size \div 4
      letter_y == center - letter_size \div 3
  IN << Ellipse(<<center - radius, center - radius,
                  center + radius, center + radius>>, WHITE, NoColor, 1),
        Rectangle(<<letter_x - letter_size \div 4, letter_y,
                    letter_x + letter_size \div 4, letter_y + letter_size \div 8>>,
                  PURPLE, NoColor),
        Rectangle(<<letter_x - letter_size \div 12, letter_y,
                    letter_x + letter_size \div 12, letter_y + letter_size \div 2>>,
                  PURPLE, NoColor) >>

\* padding = size // 10
PaddingTwentieth(size) == size \div 20

Padding(size) == size \div 10

\* create_icon: padded circle, white body, two "chat" boxes
PlaceholderShapes(size) ==
  LET padding == Padding(size)
      body_left == size \div 4
      body_top == size \div 4
      body_right == (size * 3) \div 4
      body_bottom == (size * 3) \div 4
      box_width == size \div 12
      box_height == size \div 6
      box1_x == size \div 2 - size \div 8
      box2_x == size \div 2 + size \div 24
      box_y == size \div 2 - size \div 12
  IN << Ellipse(<<padding, padding, size - padding, size - padding>>,
                PURPLE, DARK, Max(1, size \div 32)),
        Rectangle(<<body_left, body_top, body_right, body_bottom>>,
                  NamedWhite, NoColor),
        Rectangle(<<box1_x, box_y, box1_x + box_width, box_y + box_height>>,
                  PURPLE, NoColor),
        Rectangle(<<box2_x, box_y, box2_x + box_width, box_y + box_height>>,
                  PURPLE, NoColor) >>

Shapes(s, size) == IF s = "simple" THEN SimpleShapes(size) ELSE PlaceholderShapes(size)

NoImage == [mode |-> "none", size |-> <<0, 0>>, bg |-> NoColor, shapes |-> <<>>]

\* Image.new('RGBA', (size, size), PURPLE)
NewImage(size) == [mode |-> "RGBA", size |-> <<size, size>>, bg |-> PURPLE, shapes |-> <<>>]

EmptyFS == [p \in {} |-> NoImage]

Line(kind, path) == [kind |-> kind, path |-> path]

InstallingLine == Line("PIL not found. Installing Pillow...", <<>>)
AllCreatedLine == Line("All icons created successfully!", <<>>)
CreatedLine(path) == Line("Created", path)

\* the size of the current loop iteration
CurSize == sizes[idx]

\* an uncaught exception ends the process with status 1
Raise(e) == /\ pc' = "done"
            /\ error' = e
            /\ exitStatus' = 1

\* ---- start-up -----------------------------------------------------------
\* "from PIL import ..." at the top of the script
Import ==
  /\ pc = "import"
  /\ IF pil
       THEN /\ pc' = IF script = "simple" THEN "makedirs" ELSE "loop"
            /\ UNCHANGED <<error, exitStatus, stdout>>
       ELSE IF script = "placeholder"
              THEN /\ pc' = "install"
                   /\ stdout' = Append(stdout, InstallingLine)
                   /\ UNCHANGED <<error, exitStatus>>
              ELSE /\ Raise("ImportError")
                   /\ UNCHANGED stdout
  /\ UNCHANGED <<script, sizes, idx, img, pil, dirExists, fs, writes, run, prev>>

\* subprocess.check_call(['pip3', 'install', 'pillow']) in the except clause
Install ==
  /\ pc = "install"
  /\ \/ /\ pc' = "reimport"
        /\ pil' \in BOOLEAN     \* pip3 may serve another interpreter
        /\ UNCHANGED <<error, exitStatus>>
     \/ /\ Raise("CalledProcessError")
        /\ UNCHANGED pil
  /\ UNCHANGED <<script, sizes, idx, img, dirExists, fs, stdout, writes, run, prev>>

\* the second "from PIL import ..." of the except clause
Reimport ==
  /\ pc = "reimport"
  /\ IF pil
       THEN /\ pc' = "loop"
            /\ UNCHANGED <<error, exitStatus>>
       ELSE Raise("ImportError")
  /\ UNCHANGED <<script, sizes, idx, img, pil, dirExists, fs, stdout, writes, run, prev>>

\* os.makedirs without exist_ok: an existing directory is an error
MakeDirsNoExistOk ==
  /\ pc = "makedirs"
  /\ IF dirExists
       THEN /\ Raise("FileExistsError")
            /\ UNCHANGED dirExists
       ELSE \/ /\ dirExists' = TRUE
               /\ pc' = "loop"
               /\ UNCHANGED <<error, exitStatus>>
            \/ /\ Raise("OSError")
               /\ UNCHANGED dirExists
  /\ UNCHANGED <<script, sizes, idx, img, pil, fs, stdout, writes, run, prev>>

\* os.makedirs(icons_dir, exist_ok=True), create-icons-simple.py only
MakeDirs ==
  /\ pc = "makedirs"
  /\ \/ /\ dirExists' = TRUE
        /\ pc' = "loop"
        /\ UNCHANGED <<error, exitStatus>>
     \/ /\ ~dirExists
        /\ Raise("OSError")
        /\ UNCHANGED dirExists
  /\ UNCHANGED <<script, sizes, idx, img, pil, fs, stdout, writes, run, prev>>

\* ---- the loop over the sizes --------------------------------------------
\* "for size in sizes:" takes the next size or leaves the loop
Loop ==
  /\ pc = "loop"
  /\ pc' = IF idx <= Len(sizes) THEN "new" ELSE "final"
  /\ UNCHANGED <<script, sizes, idx, img, pil, dirExists, fs, stdout, writes,
                 error, exitStatus, run, prev>>

\* Image.new + ImageDraw.Draw; PIL rejects a negative width or height
\* before it allocates, and the allocation of the pixels can fail
New ==
  /\ pc = "new"
  /\ IF CurSize < 0
       THEN /\ Raise("ValueError")
            /\ UNCHANGED img
       ELSE \/ /\ img' = NewImage(CurSize)
               /\ pc' = "draw"
               /\ UNCHANGED <<error, exitStatus>>
            \/ /\ CurSize > 0
               /\ Raise("MemoryError")
               /\ UNCHANGED img
  /\ UNCHANGED <<script, sizes, idx, pil, dirExists, fs, stdout, writes, run, prev>>

\* a draw call that also logs the shape it draws to the console
DrawAndLog ==
  /\ pc = "draw"
  /\ LET todo == Shapes(script, CurSize)
         k == Len(img.shapes) + 1
     IN /\ img' = [img EXCEPT !.shapes = Append(@, todo[k])]
        /\ stdout' = Append(stdout, Line(todo[k].kind, <<>>))
        /\ pc' = IF k = Len(todo) THEN "save" ELSE "draw"
  /\ UNCHANGED <<script, sizes, idx, pil, dirExists, fs, writes,
                 error, exitStatus, run, prev>>

\* the next draw.ellipse / draw.rectangle call of the render function
Draw ==
  /\ pc = "draw"
  /\ LET todo == Shapes(script, CurSize)
         k == Len(img.shapes) + 1
     IN /\ img' = [img EXCEPT !.shapes = Append(@, todo[k])]
        /\ pc' = IF k = Len(todo) THEN "save" ELSE "draw"
  /\ UNCHANGED <<script, sizes, idx, pil, dirExists, fs, stdout, writes,
                 error, exitStatus, run, prev>>

\* a save whose failure is swallowed: the loop body goes on to the print
SaveIgnoreFailure ==
  /\ pc = "save"
  /\ IF ~dirExists
       THEN /\ pc' = "print"
            /\ UNCHANGED <<fs, writes>>
       ELSE \/ /\ fs' = (OutputPath(CurSize) :> img) @@ fs
               /\ writes' = Append(writes, OutputPath(CurSize))
               /\ pc' = "print"
            \/ /\ pc' = "print"
               /\ UNCHANGED <<fs, writes>>
  /\ UNCHANGED <<script, sizes, idx, img, pil, dirExists, stdout, run, prev,
                 error, exitStatus>>

\* a save whose failure is recorded but does not stop the loop
SaveContinue ==
  /\ pc = "save"
  /\ IF ~dirExists
       THEN /\ error' = "FileNotFoundError"
            /\ pc' = "loop"
            /\ idx' = idx + 1
            /\ UNCHANGED <<fs, writes>>
       ELSE \/ /\ fs' = (OutputPath(CurSize) :> img) @@ fs
               /\ writes' = Append(writes, OutputPath(CurSize))
               /\ pc' = "print"
               /\ UNCHANGED <<error, idx>>
            \/ /\ error' = "OSError"
               /\ pc' = "loop"
               /\ idx' = idx + 1
               /\ UNCHANGED <<fs, writes>>
  /\ UNCHANGED <<script, sizes, img, pil, dirExists, stdout, run, prev, exitStatus>>

\* img.save(output_path, 'PNG'); a failed save leaves the files as they were
Save ==
  /\ pc = "save"
  /\ IF ~dirExists
       THEN /\ Raise("FileNotFoundError")
            /\ UNCHANGED <<fs, writes>>
       ELSE \/ /\ fs' = (OutputPath(CurSize) :> img) @@ fs
               /\ writes' = Append(writes, OutputPath(CurSize))
               /\ pc' = "print"
               /\ UNCHANGED <<error, exitStatus>>
            \/ /\ Raise("OSError")
               /\ UNCHANGED <<fs, writes>>
  /\ UNCHANGED <<script, sizes, idx, img, pil, dirExists, stdout, run, prev>>

\* print(f'Created {output_path}'), the end of the loop body
PrintCreated ==
  /\ pc = "print"
  /\ stdout' = Append(stdout, CreatedLine(OutputPath(CurSize)))
  /\ idx' = idx + 1
  /\ pc' = "loop"
  /\ UNCHANGED <<script, sizes, img, pil, dirExists, fs, writes,
                 error, exitStatus, run, prev>>

\* print('All icons created successfully!') and the normal end of the process
Final ==
  /\ pc = "final"
  /\ stdout' = Append(stdout, AllCreatedLine)
  /\ pc' = "done"
  /\ exitStatus' = 0
  /\ UNCHANGED <<script, sizes, idx, img, pil, dirExists, fs, writes,
                 error, run, prev>>

\* the same script is started again on the environment the last run left
Rerun ==
  /\ pc = "done"
  /\ run < MaxRuns
  /\ run' = run + 1
  /\ prev' = [fs |-> fs, exit |-> exitStatus]
  /\ pc' = "import"
  /\ idx' = 1
  /\ img' = NoImage
  /\ stdout' = <<>>
  /\ writes' = <<>>
  /\ error' = "None"
  /\ exitStatus' = -1
  /\ UNCHANGED <<script, sizes, pil, dirExists, fs>>

\* ---- a run of a script --------------------------------------------------
Init ==
  /\ script \in Scripts
  /\ sizes = SIZES
  /\ pc = "import"
  /\ idx = 1
  /\ img = NoImage
  /\ pil \in BOOLEAN
  /\ dirExists \in BOOLEAN
  /\ fs = EmptyFS
  /\ stdout = <<>>
  /\ writes = <<>>
  /\ error = "None"
  /\ exitStatus = -1
  /\ run = 1
  /\ prev = [fs |-> EmptyFS, exit |-> -1]

Next ==
  \/ Import
  \/ Install
  \/ Reimport
  \/ MakeDirs
  \/ Loop
  \/ New
  \/ Draw
  \/ Save
  \/ PrintCreated
  \/ Final
  \/ Rerun

Spec == Init /\ [][Next]_vars

\* ---- one call of a render function on an arbitrary size ------------------
\* create_simple_icon(size) is the steps New and Draw; create_icon(size) is
\* New, Draw, Save and PrintCreated.
InRender == \/ pc \in {"new", "draw"}
            \/ script = "placeholder" /\ pc \in {"save", "print"}

RenderInit ==
  /\ script \in Scripts
  /\ \E s \in (0 - NegSizes)..MaxSize : sizes = <<s>>
  /\ pc = "new"
  /\ idx = 1
  /\ img = NoImage
  /\ pil = TRUE
  /\ dirExists \in BOOLEAN
  /\ fs = EmptyFS
  /\ stdout = <<>>
  /\ writes = <<>>
  /\ error = "None"
  /\ exitStatus = -1
  /\ run = 1
  /\ prev = [fs |-> EmptyFS, exit |-> -1]

\* the save and the print that create_icon performs itself
CreateIconSave == script = "placeholder" /\ Save

CreateIconPrint == script = "placeholder" /\ PrintCreated

RenderNext ==
  \/ New
  \/ Draw
  \/ CreateIconSave
  \/ CreateIconPrint

SpecRender == RenderInit /\ [][RenderNext]_vars

\* the size the render function was called with
RSize == sizes[1]

\* ---- helpers of the properties ------------------------------------------
Range(f) == {f[i] : i \in DOMAIN f}

IsCreated(l) == l.kind = "Created"

\* the paths of the "Created" lines printed so far, in order
Reported == LET c == SelectSeq(stdout, IsCreated)
            IN [i \in 1..Len(c) |-> c[i].path]

\* the four paths a complete run is expected to write, spelled out
ExpectedPaths ==
  << <<"scripts", "..", "public", "icons", "icon", "1", "6", ".png">>,
     <<"scripts", "..", "public", "icons", "icon", "3", "2", ".png">>,
     <<"scripts", "..", "public", "icons", "icon", "4", "8", ".png">>,
     <<"scripts", "..", "public", "icons", "icon", "1", "2", "8", ".png">> >>

\* exceptions that come from the environment, not from the state of the files
EnvFaults == {"OSError", "MemoryError"}

\* pixel columns and rows of a rectangle whose two corners are both inclusive
Cols(box) == box[3] - box[1] + 1
Rows(box) == box[4] - box[2] + 1

\* ---- C1 -----------------------------------------------------------------
\* C1: the output directory exists whenever a save is about to be attempted,
\* also in a run that started with the directory absent.
C1_DirBeforeSave == pc = "save" => dirExists

\* ---- C2 -----------------------------------------------------------------
\* C2: a run that ends with exit status 0 has made exactly four file writes,
\* one per size and in the order of the size list, to the pairwise distinct
\* paths icon16.png, icon32.png, icon48.png and icon128.png of the output
\* directory, and the directory holds no other file.
C2_ExactlyFourWrites ==
  (pc = "done" /\ exitStatus = 0) =>
     /\ writes = ExpectedPaths
     /\ \A i, j \in 1..Len(writes) : i # j => writes[i] # writes[j]
     /\ \A i \in 1..Len(writes) : writes[i] = OutputPath(sizes[i])
     /\ DOMAIN fs = Range(ExpectedPaths)

C2_Witness ==
  /\ pc = "done" /\ exitStatus = 0 /\ run = 1
  /\ Len(writes) = 4 /\ Cardinality(DOMAIN fs) = 4

\* ---- C3 -----------------------------------------------------------------
\* C3: a render called with a size <= 0 never has a canvas and never gets to
\* a draw or save step: it ends with InvalidSizeError.
C3_InvalidSizeError ==
  RSize <= 0 => /\ img = NoImage
                /\ pc \in {"new", "done"}
                /\ pc = "done" => error = "InvalidSizeError"

\* ---- C4 -----------------------------------------------------------------
\* C4: for a size >= 16 every x and y coordinate handed to a draw call of
\* either render function lies on the canvas, in 0..size-1.
C4_GeometryInCanvas ==
  RSize >= 16 =>
     \A i \in 1..Len(img.shapes) : \A j \in 1..4 :
        /\ img.shapes[i].box[j] >= 0
        /\ img.shapes[i].box[j] <= img.size[1] - 1
        /\ img.size[1] = RSize

C4_Witness ==
  /\ script = "placeholder" /\ RSize = 16
  /\ Len(img.shapes) = 4
  /\ img.shapes[1].box[3] = 15

C6_FailureAborts ==
  /\ [](error # "None" =>
          /\ pc = "done" /\ exitStatus = 1
          /\ AllCreatedLine \notin Range(stdout)
          /\ writes = [i \in 1..(idx - 1) |-> OutputPath(sizes[i])]
          /\ Len(writes) < Len(sizes))
  /\ []((pc = "done" /\ exitStatus = 0) =>
          /\ error = "None"
          /\ idx = Len(sizes) + 1
          /\ Len(writes) = Len(sizes)
          /\ stdout[Len(stdout)] = AllCreatedLine)
  /\ [](pc = "done" => exitStatus \in {0, 1})
  /\ [][error # "None" => run' = run + 1]_vars

C6_Witness ==
  /\ pc = "done" /\ exitStatus = 1
  /\ error \in {"OSError", "MemoryError"}
  /\ idx = 3 /\ Len(writes) = 2

\* ---- C7 -----------------------------------------------------------------
\* C7: the 'Created' lines name exactly the paths of the successful saves, in
\* order; the line of a size is missing only between its save and its print,
\* so it is there before the next size is rendered, and no line names a path
\* that was not written.
C7_ReportedAfterSave ==
  /\ Len(Reported) <= Len(writes)
  /\ \A i \in 1..Len(Reported) : Reported[i] = writes[i] /\ Reported[i] \in DOMAIN fs
  /\ pc # "print" => Reported = writes
  /\ pc = "print" => /\ Len(writes) = Len(Reported) + 1
                     /\ writes[Len(writes)] = OutputPath(CurSize)

C7_Witness ==
  /\ pc = "new" /\ idx = 2
  /\ Len(Reported) = 1 /\ Reported[1] = ExpectedPaths[1]

\* ---- C8 -----------------------------------------------------------------
\* C8: in both scripts a failed first import is followed by the install
\* attempt and the retried import; rendering is reached only with the library
\* importable, and a run ended by the missing library has rendered and written
\* nothing.
C8_AutoInstall ==
  /\ [][(pc = "import" /\ ~pil) => pc' = "install"]_vars
  /\ [][pc = "install" => pc' \in {"reimport", "done"}]_vars
  /\ [](pc \in {"loop", "new", "draw", "save", "print", "final"} => pil)
  /\ [](error \in {"ImportError", "CalledProcessError"} =>
          writes = <<>> /\ img = NoImage)

\* ---- C9 -----------------------------------------------------------------
\* C9: a second run never fails because the directory or the files exist,
\* and when the first run succeeded and the environment raises no fault in
\* the second, the second succeeds and leaves the same files with the same
\* contents as the first.
C9_SecondRunIdempotent ==
  (run >= 2 /\ pc = "done") =>
     /\ error # "FileExistsError"
     /\ (prev.exit = 0 /\ error \notin EnvFaults) =>
           /\ exitStatus = 0
           /\ fs = prev.fs
           /\ DOMAIN fs = Range(writes)

C9_Witness ==
  /\ run = 2 /\ pc = "done" /\ exitStatus = 0 /\ prev.exit = 0
  /\ Cardinality(DOMAIN fs) = 4

\* ---- C10 ----------------------------------------------------------------
\* C10: for the sizes of the list, the two chat boxes drawn by create_icon
\* cover size//12 columns and size//6 rows each (corners inclusive), do not
\* overlap, and are equally far from the left and the right canvas edge.
C10_ChatBoxes ==
  (script = "placeholder" /\ Len(img.shapes) = 4) =>
     LET size == img.size[1]
         b1 == img.shapes[3].box
         b2 == img.shapes[4].box
     IN /\ Cols(b1) = size \div 12 /\ Cols(b2) = size \div 12
        /\ Rows(b1) = size \div 6 /\ Rows(b2) = size \div 6
        /\ b1[3] < b2[1]
        /\ b1[1] = (size - 1) - b2[3]
====
